---- MODULE Spec2Model ----
(***************************************************************************)
(* Model of the pattern-matching dispatcher `match` (src/helpers/match.ts) *)
(* and of the Option / Result containers it consumes.                      *)
(*                                                                         *)
(* JavaScript values are records tagged by `t`; property keys are records  *)
(* [sym, name] (a string key, or a symbol named by its description).       *)
(* Objects carry their class (which selects the prototype chain) and the   *)
(* sequence of their own properties in insertion order.                    *)
(***************************************************************************)
EXTENDS Integers, Sequences, FiniteSets, TLC

VARIABLES matcher, cases, discriminant, pc, ncalls, outcome, calls,
          prevOutcome, prevCalls, okOrError, converted,
          made, current, chain, heap, last

vars == <<matcher, cases, discriminant, pc, ncalls, outcome, calls,
          prevOutcome, prevCalls, okOrError, converted,
          made, current, chain, heap, last>>

\* ---------------------------------------------------------------- bounds
MaxCases == 2
MaxCalls == 2
MaxNum == 1
MaxChain == 3
MaxHeap == 2

\* ---------------------------------------------------------------- values
Undefined == [t |-> "undefined"]
Null == [t |-> "null"]
Bool(b) == [t |-> "boolean", b |-> b]
Str(s) == [t |-> "string", s |-> s]
Num(n) == [t |-> "number", n |-> n]
Sym(d) == [t |-> "symbol", d |-> d]
Obj(cls, own) == [t |-> "object", cls |-> cls, own |-> own]

StrKey(s) == [sym |-> FALSE, name |-> s]
SymKey(d) == [sym |-> TRUE, name |-> d]
Prop(k, v) == [key |-> k, val |-> v]

\* typeof v
TypeOf(v) == IF v.t = "null" THEN "object" ELSE v.t

\* the truthiness test of `if (x)`, `!x` and `x && ...`
Truthy(v) ==
  CASE v.t = "undefined" -> FALSE
    [] v.t = "null" -> FALSE
    [] v.t = "boolean" -> v.b
    [] v.t = "string" -> v.s # ""
    [] v.t = "number" -> v.n # 0
    [] OTHER -> TRUE

Digits == <<"0", "1", "2", "3", "4", "5", "6", "7", "8", "9">>

RECURSIVE NumToString(_)
\* String(n) for a non-negative integer n
NumToString(n) ==
  IF n < 10 THEN Digits[n + 1]
  ELSE NumToString(n \div 10) \o Digits[(n % 10) + 1]

\* String(v), as used in the error messages and in property-key conversion
\* (a function converts to its source text, which no key of the model spells)
ToStr(v) ==
  CASE v.t = "string" -> v.s
    [] v.t = "number" -> NumToString(v.n)
    [] v.t = "symbol" -> "Symbol(" \o v.d \o ")"
    [] v.t = "undefined" -> "undefined"
    [] v.t = "null" -> "null"
    [] v.t = "boolean" -> IF v.b THEN "true" ELSE "false"
    [] v.t = "function" -> "function"
    [] OTHER -> "[object Object]"

\* mutant: a number is looked up as a key of its own, distinct from the
\* string that spells it
ToPropertyKeyStrict(v) ==
  IF v.t = "symbol" THEN SymKey(v.d)
  ELSE IF v.t = "number" THEN StrKey("number:" \o NumToString(v.n))
  ELSE StrKey(ToStr(v))

\* the property key that `obj[v]` looks up: numbers and the other
\* non-symbol values are converted to their string, symbols are kept
ToPropertyKey(v) ==
  IF v.t = "symbol" THEN SymKey(v.d) ELSE StrKey(ToStr(v))

\* ------------------------------------------------------------ containers
Ok(v) == Obj("Ok", <<Prop(StrKey("_value"), v)>>)
\* mutant: a string error is wrapped into an error object carrying it as
\* its message
ErrWrapsStrings(e) ==
  Obj("Err", <<Prop(StrKey("error"),
                    IF e.t = "string"
                    THEN [t |-> "error", name |-> "Error", message |-> e.s]
                    ELSE e)>>)
Err(e) == Obj("Err", <<Prop(StrKey("error"), e)>>)
Some(v) == Obj("Some", <<Prop(StrKey("_value"), v)>>)
None == Obj("None", <<>>)

ResultMembers ==
  {"isOk", "isErr", "unwrap", "unwrapErr", "value", "map", "mapErr",
   "flatMap", "unwrapOr", "unwrapOrElse", "orElse", "ok", "constructor"}

OptionMembers ==
  {"isSome", "isNone", "unwrap", "value", "map", "flatMap", "unwrapOr",
   "unwrapOrElse", "okOr", "filter", "constructor"}

\* the members every object inherits from Object.prototype
ObjectPrototypeMembers ==
  {"constructor", "toString", "toLocaleString", "valueOf", "hasOwnProperty",
   "isPrototypeOf", "propertyIsEnumerable"}

ClassMembers(cls) ==
  CASE cls \in {"Ok", "Err"} -> ResultMembers
    [] cls \in {"Some", "None"} -> OptionMembers
    [] OTHER -> {}

\* ------------------------------------------------------------ properties
OwnKeys(o) == [i \in 1..Len(o.own) |-> o.own[i].key]

HasOwn(o, k) == \E i \in 1..Len(o.own) : o.own[i].key = k

OwnValue(o, k) == o.own[CHOOSE i \in 1..Len(o.own) : o.own[i].key = k].val

Inherits(o, k) ==
  /\ ~k.sym
  /\ k.name \in (ClassMembers(o.cls) \cup ObjectPrototypeMembers)

\* `k in o`: own properties and the prototype chain
HasProperty(o, k) == HasOwn(o, k) \/ Inherits(o, k)

Method(cls, name) == [t |-> "function", f |-> "method", cls |-> cls, name |-> name]
Native(name) == [t |-> "function", f |-> "native", name |-> name]

\* `o[k]`: the own property, else the class method, else the member of
\* Object.prototype, else undefined
Get(o, k) ==
  IF HasOwn(o, k) THEN OwnValue(o, k)
  ELSE IF ~k.sym /\ k.name \in ClassMembers(o.cls) THEN Method(o.cls, k.name)
  ELSE IF ~k.sym /\ k.name \in ObjectPrototypeMembers THEN Native(k.name)
  ELSE Undefined

\* ----------------------------------------------------------- completions
Return(v) == [tag |-> "return", value |-> v]
Throw(msg) == [tag |-> "throw", value |-> [t |-> "error", name |-> "Error", message |-> msg]]
ThrowTypeError(msg) == [tag |-> "throw", value |-> [t |-> "error", name |-> "TypeError", message |-> msg]]

\* the result of running a piece of code: how it completed and which
\* handler invocations it made, in order
Ran(completion, invoked) == [completion |-> completion, calls |-> invoked]

\* ---------------------------------------------------- container methods
OkUnwrap(o) == Return(OwnValue(o, StrKey("_value")))
OkUnwrapErr(o) == Throw("Called unwrapErr on an Ok value")
OkToOption(o) == Return(Some(OwnValue(o, StrKey("_value"))))
\* mutant: unwrap on an Err hands out the error instead of failing
ErrUnwrapReturnsError(o) == Return(OwnValue(o, StrKey("error")))
ErrUnwrap(o) == Throw("Called unwrap on an Err value")
ErrUnwrapErr(o) == Return(OwnValue(o, StrKey("error")))
ErrToOption(o) == Return(None)
SomeUnwrap(o) == Return(OwnValue(o, StrKey("_value")))
\* mutant: okOr on Some wraps the supplied error, not the value
SomeOkOrHoldsError(o, e) == Return(Ok(e))
SomeOkOr(o, e) == Return(Ok(OwnValue(o, StrKey("_value"))))
NoneUnwrap(o) == Throw("Called unwrap on a None value")
OkValue(o) == Return(OwnValue(o, StrKey("_value")))
ErrValue(o) == Return(OwnValue(o, StrKey("error")))
\* mutant: value on Some answers undefined, as on None
SomeValueAbsent(o) == Return(Undefined)
SomeValue(o) == Return(OwnValue(o, StrKey("_value")))
\* mutant: value on None fails as unwrap does
NoneValueThrows(o) == Throw("Called unwrap on a None value")
NoneValue(o) == Return(Undefined)
OkUnwrapOr(o, d) == Return(OwnValue(o, StrKey("_value")))
ErrUnwrapOr(o, d) == Return(d)
SomeUnwrapOr(o, d) == Return(OwnValue(o, StrKey("_value")))
NoneUnwrapOr(o, d) == Return(d)
\* mutant: okOr on None drops the supplied error
NoneOkOrDropsError(o, e) == Return(Err(Undefined))
NoneOkOr(o, e) == Return(Err(e))

\* o.name(...args) for a method of the container classes
ClassMethod(o, cls, name, args) ==
  CASE name = "isOk" -> Return(Bool(cls = "Ok"))
    [] name = "isErr" -> Return(Bool(cls = "Err"))
    [] name = "isSome" -> Return(Bool(cls = "Some"))
    [] name = "isNone" -> Return(Bool(cls = "None"))
    [] name = "unwrap" /\ cls = "Ok" -> OkUnwrap(o)
    [] name = "unwrap" /\ cls = "Err" -> ErrUnwrap(o)
    [] name = "unwrap" /\ cls = "Some" -> SomeUnwrap(o)
    [] name = "unwrap" /\ cls = "None" -> NoneUnwrap(o)
    [] name = "unwrapErr" /\ cls = "Ok" -> OkUnwrapErr(o)
    [] name = "unwrapErr" /\ cls = "Err" -> ErrUnwrapErr(o)
    [] name = "ok" /\ cls = "Ok" -> OkToOption(o)
    [] name = "ok" /\ cls = "Err" -> ErrToOption(o)
    [] name = "okOr" /\ cls = "Some" -> SomeOkOr(o, args[1])
    [] name = "okOr" /\ cls = "None" -> NoneOkOr(o, args[1])
    [] name = "value" /\ cls = "Ok" -> OkValue(o)
    [] name = "value" /\ cls = "Err" -> ErrValue(o)
    [] name = "value" /\ cls = "Some" -> SomeValue(o)
    [] name = "value" /\ cls = "None" -> NoneValue(o)
    [] name = "unwrapOr" /\ cls = "Ok" -> OkUnwrapOr(o, args[1])
    [] name = "unwrapOr" /\ cls = "Err" -> ErrUnwrapOr(o, args[1])
    [] name = "unwrapOr" /\ cls = "Some" -> SomeUnwrapOr(o, args[1])
    [] name = "unwrapOr" /\ cls = "None" -> NoneUnwrapOr(o, args[1])
    [] OTHER -> Return(Undefined)

\* o.name(...args): a TypeError when the member is not callable
CallMethod(o, name, args) ==
  LET m == Get(o, StrKey(name)) IN
  IF m.t # "function" THEN ThrowTypeError(name \o " is not a function")
  ELSE IF m.f = "method" THEN ClassMethod(o, m.cls, name, args)
  ELSE IF m.f = "const" THEN Return(m.v)
  ELSE Return(Undefined)

\* -------------------------------------------------------------- handlers
\* a handler the caller stored under case key k: a pure function whose
\* return value is determined by the handler and its arguments
Handler(k) == [t |-> "function", f |-> "handler", of |-> k]

\* the handlers of the conversion tables
\*   {Ok: v => Some(v), Err: _ => None()}, {Some: v => Ok(v), None: () => Err(e)}
Converter(k, e) == [t |-> "function", f |-> "converter", of |-> k, e |-> e]

HandlerReturn(fn, args) == [t |-> "returned", by |-> fn.of, args |-> args]

\* the factory call ctor(arg); None takes no argument
Construct(ctor, arg) ==
  CASE ctor = "Ok" -> Ok(arg)
    [] ctor = "Err" -> Err(arg)
    [] ctor = "Some" -> Some(arg)
    [] OTHER -> None

\* a function that builds a container from what a pure function makes of
\* its argument: (value) => Ok(value * 3), (value) => Some(value * 3)
Lifted(ctor, k) == [t |-> "function", f |-> "lifted", ctor |-> ctor, of |-> k]

LiftedReturn(fn, args) == Construct(fn.ctor, HandlerReturn(fn, args))

\* a handler that fails: (error) => { throw new Error(...) }
FailingHandler(k) == [t |-> "function", f |-> "failing", of |-> k]

\* the failure of such a handler, which names the handler
FailingCompletion(fn, args) == Throw("Error: " \o fn.of.name)

\* the predicate (x) => x > n
GreaterThan(n) == [t |-> "function", f |-> "greater", n |-> n]

\* x > n is false unless x is a number above n (a string that spells no
\* number, undefined and an object compare as NaN)
GreaterThanReturn(fn, args) ==
  Bool(Len(args) > 0 /\ args[1].t = "number" /\ args[1].n > fn.n)

ConverterReturn(fn, args) ==
  CASE fn.of = StrKey("Ok") -> Some(IF Len(args) > 0 THEN args[1] ELSE Undefined)
    [] fn.of = StrKey("Err") -> None
    [] fn.of = StrKey("Some") -> Ok(IF Len(args) > 0 THEN args[1] ELSE Undefined)
    [] fn.of = StrKey("None") -> Err(fn.e)
    [] OTHER -> Undefined

\* a member of Object.prototype called as a plain function: module code is
\* strict, so the receiver is undefined
NativeReturn(fn, args) ==
  CASE fn.name = "constructor" ->
         IF Len(args) > 0 /\ args[1].t = "object" THEN Return(args[1])
         ELSE Return(Obj("Object", <<>>))
    [] fn.name \in {"toString", "toLocaleString"} -> Return(Str("[object Undefined]"))
    [] OTHER -> ThrowTypeError("Cannot convert undefined or null to object")

\* fn(...args)
Call(fn, args) ==
  IF fn.t # "function" THEN ThrowTypeError("handler is not a function")
  ELSE CASE fn.f = "handler" -> Return(HandlerReturn(fn, args))
         [] fn.f = "converter" -> Return(ConverterReturn(fn, args))
         [] fn.f = "native" -> NativeReturn(fn, args)
         [] fn.f = "const" -> Return(fn.v)
         [] fn.f = "lifted" -> Return(LiftedReturn(fn, args))
         [] fn.f = "greater" -> Return(GreaterThanReturn(fn, args))
         [] fn.f = "failing" -> FailingCompletion(fn, args)
         [] OTHER -> Return(Undefined)

\* mutant: a handler works on the first call to match only
InvokeOnce(fn, args) ==
  IF ncalls > 0 THEN Ran(Return(Undefined), <<>>)
  ELSE Ran(Call(fn, args),
           IF fn.t = "function" THEN <<[fn |-> fn, args |-> args]>> ELSE <<>>)

\* `return handler(...args)`: the invocation is recorded and its completion
\* is the completion of match
Invoke(fn, args) ==
  Ran(Call(fn, args),
      IF fn.t = "function" THEN <<[fn |-> fn, args |-> args]>> ELSE <<>>)

\* ------------------------------------- container methods taking a function
\* each yields its completion and the invocations of the function it made
OkMap(o, fn) ==
  LET r == Invoke(fn, <<OwnValue(o, StrKey("_value"))>>) IN
  IF r.completion.tag = "throw" THEN r
  ELSE Ran(Return(Ok(r.completion.value)), r.calls)

\* mutant: flatMap wraps what the function returns, as map does
OkFlatMapWraps(o, fn) ==
  LET r == Invoke(fn, <<OwnValue(o, StrKey("_value"))>>) IN
  IF r.completion.tag = "throw" THEN r
  ELSE Ran(Return(Ok(r.completion.value)), r.calls)

OkFlatMap(o, fn) == Invoke(fn, <<OwnValue(o, StrKey("_value"))>>)

OkMapErr(o, fn) == Ran(Return(o), <<>>)

OkUnwrapOrElse(o, fn) == Ran(Return(OwnValue(o, StrKey("_value"))), <<>>)

OkOrElse(o, fn) == Ran(Return(o), <<>>)

\* mutant: map on an Err runs the function on the error
ErrMapApplies(o, fn) ==
  LET r == Invoke(fn, <<OwnValue(o, StrKey("error"))>>) IN
  IF r.completion.tag = "throw" THEN r
  ELSE Ran(Return(Err(r.completion.value)), r.calls)

ErrMap(o, fn) == Ran(Return(o), <<>>)

ErrMapErr(o, fn) ==
  LET r == Invoke(fn, <<OwnValue(o, StrKey("error"))>>) IN
  IF r.completion.tag = "throw" THEN r
  ELSE Ran(Return(Err(r.completion.value)), r.calls)

\* mutant: flatMap on an Err runs the function on the error
ErrFlatMapApplies(o, fn) == Invoke(fn, <<OwnValue(o, StrKey("error"))>>)

ErrFlatMap(o, fn) == Ran(Return(o), <<>>)

\* mutant: unwrapOrElse on an Err calls the function without the error
ErrUnwrapOrElseNoArgument(o, fn) == Invoke(fn, <<>>)

ErrUnwrapOrElse(o, fn) == Invoke(fn, <<OwnValue(o, StrKey("error"))>>)

\* mutant: orElse on an Err passes the Err through, as on an Ok
ErrOrElseKeepsErr(o, fn) == Ran(Return(o), <<>>)

ErrOrElse(o, fn) == Invoke(fn, <<OwnValue(o, StrKey("error"))>>)

\* mutant: map on Some hands out what the function returns, unwrapped
SomeMapUnwrapped(o, fn) == Invoke(fn, <<OwnValue(o, StrKey("_value"))>>)

SomeMap(o, fn) ==
  LET r == Invoke(fn, <<OwnValue(o, StrKey("_value"))>>) IN
  IF r.completion.tag = "throw" THEN r
  ELSE Ran(Return(Some(r.completion.value)), r.calls)

SomeFlatMap(o, fn) == Invoke(fn, <<OwnValue(o, StrKey("_value"))>>)

SomeUnwrapOrElse(o, fn) == Ran(Return(OwnValue(o, StrKey("_value"))), <<>>)

\* mutant: filter keeps the Some whatever the predicate answers
SomeFilterKeepsAll(o, predicate) ==
  LET r == Invoke(predicate, <<OwnValue(o, StrKey("_value"))>>) IN
  IF r.completion.tag = "throw" THEN r ELSE Ran(Return(o), r.calls)

SomeFilter(o, predicate) ==
  LET r == Invoke(predicate, <<OwnValue(o, StrKey("_value"))>>) IN
  IF r.completion.tag = "throw" THEN r
  ELSE Ran(Return(IF Truthy(r.completion.value) THEN o ELSE None), r.calls)

NoneMap(o, fn) == Ran(Return(None), <<>>)

NoneFlatMap(o, fn) == Ran(Return(None), <<>>)

NoneUnwrapOrElse(o, fn) == Invoke(fn, <<>>)

NoneFilter(o, predicate) == Ran(Return(None), <<>>)

\* o.name(...args) with the invocations it made of a function argument
RunMethod(o, name, args) ==
  CASE name = "map" /\ o.cls = "Ok" -> OkMap(o, args[1])
    [] name = "map" /\ o.cls = "Err" -> ErrMap(o, args[1])
    [] name = "map" /\ o.cls = "Some" -> SomeMap(o, args[1])
    [] name = "map" /\ o.cls = "None" -> NoneMap(o, args[1])
    [] name = "flatMap" /\ o.cls = "Ok" -> OkFlatMap(o, args[1])
    [] name = "flatMap" /\ o.cls = "Err" -> ErrFlatMap(o, args[1])
    [] name = "flatMap" /\ o.cls = "Some" -> SomeFlatMap(o, args[1])
    [] name = "flatMap" /\ o.cls = "None" -> NoneFlatMap(o, args[1])
    [] name = "mapErr" /\ o.cls = "Ok" -> OkMapErr(o, args[1])
    [] name = "mapErr" /\ o.cls = "Err" -> ErrMapErr(o, args[1])
    [] name = "unwrapOrElse" /\ o.cls = "Ok" -> OkUnwrapOrElse(o, args[1])
    [] name = "unwrapOrElse" /\ o.cls = "Err" -> ErrUnwrapOrElse(o, args[1])
    [] name = "unwrapOrElse" /\ o.cls = "Some" -> SomeUnwrapOrElse(o, args[1])
    [] name = "unwrapOrElse" /\ o.cls = "None" -> NoneUnwrapOrElse(o, args[1])
    [] name = "orElse" /\ o.cls = "Ok" -> OkOrElse(o, args[1])
    [] name = "orElse" /\ o.cls = "Err" -> ErrOrElse(o, args[1])
    [] name = "filter" /\ o.cls = "Some" -> SomeFilter(o, args[1])
    [] name = "filter" /\ o.cls = "None" -> NoneFilter(o, args[1])
    [] OTHER -> Ran(CallMethod(o, name, args), <<>>)

\* ---------------------------------------------------------------- match
\* the keys `for (const key in cases)` visits: the integer-like keys in
\* ascending numeric order, then the other string keys in insertion order;
\* symbol keys are not enumerated
IsArrayIndex(k) == ~k.sym /\ \E n \in 0..MaxNum : k.name = NumToString(n)

RECURSIVE IndexKeysFrom(_, _)
IndexKeysFrom(o, n) ==
  IF n > MaxNum THEN <<>>
  ELSE (IF HasOwn(o, StrKey(NumToString(n))) THEN <<StrKey(NumToString(n))>> ELSE <<>>)
       \o IndexKeysFrom(o, n + 1)

ForInKeys(o) ==
  IndexKeysFrom(o, 0) \o
  SelectSeq(OwnKeys(o), LAMBDA k : ~k.sym /\ ~IsArrayIndex(k))

FellThrough == Ran([tag |-> "fallthrough"], <<>>)

\* mutant: when the selected handler fails, the default is tried
MatchPrimitiveFallsBack(m, c) ==
  LET handler == Get(c, ToPropertyKey(m))
      first == Invoke(handler, <<>>)
      second == Invoke(Get(c, StrKey("default")), <<>>)
  IN IF Truthy(handler)
     THEN (IF first.completion.tag = "throw" /\ Truthy(Get(c, StrKey("default")))
           THEN Ran(second.completion, first.calls \o second.calls)
           ELSE first)
     ELSE IF Truthy(Get(c, StrKey("default"))) THEN second
     ELSE Ran(Throw("No case found for value: " \o ToStr(m)), <<>>)

\* primitives (string, number, symbol)
MatchPrimitive(m, c) ==
  LET handler == Get(c, ToPropertyKey(m)) IN
  IF Truthy(handler) THEN Invoke(handler, <<>>)
  ELSE IF Truthy(Get(c, StrKey("default")))
       THEN Invoke(Get(c, StrKey("default")), <<>>)
  ELSE Ran(Throw("No case found for value: " \o ToStr(m)), <<>>)

RECURSIVE ScanCases(_, _, _, _)
\* the loop over the case keys, from the i-th key on
ScanCases(m, c, keys, i) ==
  IF i > Len(keys) THEN FellThrough
  ELSE LET key == keys[i]
           handler == Get(c, key)
       IN IF key = StrKey("default") THEN ScanCases(m, c, keys, i + 1)
          ELSE IF HasProperty(m, key) /\ Truthy(handler)
               THEN (IF handler.t = "function"
                     THEN Invoke(handler, <<Get(m, key)>>)
                     ELSE Invoke(handler, <<>>))
          ELSE ScanCases(m, c, keys, i + 1)

\* mutant: the scan follows the subject's property order
MatchMixedUnionSubjectOrder(m, c) ==
  LET scanned == ScanCases(m, c, SelectSeq(OwnKeys(m), LAMBDA k : HasOwn(c, k)), 1) IN
  IF scanned # FellThrough THEN scanned
  ELSE IF Truthy(Get(c, StrKey("default")))
       THEN Invoke(Get(c, StrKey("default")), <<>>)
  ELSE FellThrough

\* mutant: a miss without default fails at once instead of falling through
MatchMixedUnionFailFast(m, c) ==
  LET scanned == ScanCases(m, c, ForInKeys(c), 1) IN
  IF scanned # FellThrough THEN scanned
  ELSE IF Truthy(Get(c, StrKey("default")))
       THEN Invoke(Get(c, StrKey("default")), <<>>)
  ELSE Ran(Throw("No case found for value: " \o ToStr(m)), <<>>)

\* mutant: the default is left to the steps after the key scan
MatchMixedUnionNoDefault(m, c) == ScanCases(m, c, ForInKeys(c), 1)

\* objects with specific property keys, no discriminant
MatchMixedUnion(m, c) ==
  LET scanned == ScanCases(m, c, ForInKeys(c), 1) IN
  IF scanned # FellThrough THEN scanned
  ELSE IF Truthy(Get(c, StrKey("default")))
       THEN Invoke(Get(c, StrKey("default")), <<>>)
  ELSE FellThrough

\* discriminated unions
MatchDiscriminatedUnion(m, c, d) ==
  LET discriminantValue == Get(m, ToPropertyKey(d))
      handler == Get(c, ToPropertyKey(discriminantValue))
  IN IF Truthy(handler) THEN Invoke(handler, <<m>>)
     ELSE IF Truthy(Get(c, StrKey("default")))
          THEN Invoke(Get(c, StrKey("default")), <<m>>)
     ELSE Ran(Throw("No case found for discriminant value: "
                    \o ToStr(discriminantValue)), <<>>)

\* mutant: the Err branch reads the payload with unwrap()
ShapesErrUnwrap ==
  << [pred |-> "isOk", case |-> "Ok", unwrap |-> "unwrap"],
     [pred |-> "isErr", case |-> "Err", unwrap |-> "unwrap"],
     [pred |-> "isSome", case |-> "Some", unwrap |-> "unwrap"],
     [pred |-> "isNone", case |-> "None", unwrap |-> ""] >>

\* mutant: the Err branch comes before the Ok branch
ShapesErrFirst ==
  << [pred |-> "isErr", case |-> "Err", unwrap |-> "unwrapErr"],
     [pred |-> "isOk", case |-> "Ok", unwrap |-> "unwrap"],
     [pred |-> "isSome", case |-> "Some", unwrap |-> "unwrap"],
     [pred |-> "isNone", case |-> "None", unwrap |-> ""] >>

\* the four early returns, in source order: the capability predicate, the
\* case it requires and the accessor whose result the handler receives
Shapes ==
  << [pred |-> "isOk", case |-> "Ok", unwrap |-> "unwrap"],
     [pred |-> "isErr", case |-> "Err", unwrap |-> "unwrapErr"],
     [pred |-> "isSome", case |-> "Some", unwrap |-> "unwrap"],
     [pred |-> "isNone", case |-> "None", unwrap |-> ""] >>

\* mutant: a missing handler is skipped silently
MatchShapeSkipMissing(m, c, shape) ==
  LET isShape == IF TypeOf(m) = "object" /\ m # Null
                    /\ HasProperty(m, StrKey(shape.pred))
                 THEN CallMethod(m, shape.pred, <<>>)
                 ELSE Return(Bool(FALSE))
      handler == Get(c, StrKey(shape.case))
  IN IF isShape.tag = "throw" THEN Ran(isShape, <<>>)
     ELSE IF ~Truthy(isShape.value) \/ ~Truthy(handler) THEN FellThrough
     ELSE IF shape.unwrap = "" THEN Invoke(handler, <<>>)
     ELSE LET unwrapped == CallMethod(m, shape.unwrap, <<>>) IN
          IF unwrapped.tag = "throw" THEN Ran(unwrapped, <<>>)
          ELSE Invoke(handler, <<unwrapped.value>>)

\* one early return: FellThrough when the subject is not of this shape
MatchShape(m, c, shape) ==
  LET isShape == IF TypeOf(m) = "object" /\ m # Null
                    /\ HasProperty(m, StrKey(shape.pred))
                 THEN CallMethod(m, shape.pred, <<>>)
                 ELSE Return(Bool(FALSE))
      handler == Get(c, StrKey(shape.case))
  IN IF isShape.tag = "throw" THEN Ran(isShape, <<>>)
     ELSE IF ~Truthy(isShape.value) THEN FellThrough
     ELSE IF ~Truthy(handler) THEN Ran(Throw("Missing case for " \o shape.case), <<>>)
     ELSE IF shape.unwrap = "" THEN Invoke(handler, <<>>)
     ELSE LET unwrapped == CallMethod(m, shape.unwrap, <<>>) IN
          IF unwrapped.tag = "throw" THEN Ran(unwrapped, <<>>)
          ELSE Invoke(handler, <<unwrapped.value>>)

RECURSIVE MatchResultOption(_, _, _)
\* the early returns from the i-th on, then the final throw
MatchResultOption(m, c, i) ==
  IF i > Len(Shapes) THEN Ran(Throw("Invalid matcher or missing case"), <<>>)
  ELSE LET r == MatchShape(m, c, Shapes[i]) IN
       IF r # FellThrough THEN r ELSE MatchResultOption(m, c, i + 1)

\* match(matcher, cases, discriminant); an omitted discriminant is undefined
match(m, c, d) ==
  IF TypeOf(m) \in {"string", "number", "symbol"} THEN MatchPrimitive(m, c)
  ELSE
    LET mixed == IF TypeOf(m) = "object" /\ m # Null /\ ~Truthy(d)
                 THEN MatchMixedUnion(m, c)
                 ELSE FellThrough
    IN IF mixed # FellThrough THEN mixed
       ELSE IF Truthy(d) /\ TypeOf(m) = "object" /\ m # Null
            THEN MatchDiscriminatedUnion(m, c, d)
       ELSE MatchResultOption(m, c, 1)

\* ---------------------------------------------------------------- inputs
Payloads == {Str("a"), Num(1)}

Containers ==
  {Ok(v) : v \in Payloads} \cup {Err(v) : v \in Payloads}
    \cup {Some(v) : v \in Payloads} \cup {None}

Primitives ==
  {Str("a"), Str("b"), Str("1"), Num(1), Sym("s"), Str("constructor"), Str("toString")}

NonMatchable == {Null, Undefined, Bool(TRUE), Bool(FALSE)}

\* a mixed-union object: its own properties in the order b, a, 1
MixedObject ==
  Obj("Object", <<Prop(StrKey("b"), Str("pb")), Prop(StrKey("a"), Str("pa")),
                  Prop(StrKey("1"), Str("p1"))>>)

PlainObjects ==
  { MixedObject,
    Obj("Object", <<Prop(StrKey("type"), Str("a")), Prop(StrKey("a"), Str("pa"))>>),
    Obj("Object", <<Prop(StrKey("type"), Num(1))>>),
    Obj("Object", <<Prop(StrKey("type"), Str("constructor"))>>),
    Obj("Object", <<Prop(StrKey(""), Str("a")), Prop(StrKey("0"), Str("b"))>>) }

\* a function that returns v whatever it is given
Const(v) == [t |-> "function", f |-> "const", v |-> v]

\* an object that is no instance of the container classes but carries their
\* capability predicates, two of them true
DuckResult ==
  Obj("Object", <<Prop(StrKey("isOk"), Const(Bool(TRUE))),
                  Prop(StrKey("isErr"), Const(Bool(TRUE))),
                  Prop(StrKey("unwrap"), Const(Str("a"))),
                  Prop(StrKey("unwrapErr"), Const(Str("e")))>>)

Subjects ==
  Primitives \cup NonMatchable \cup Containers \cup PlainObjects \cup {DuckResult}

Discriminants == {Undefined, Str("type"), Str(""), Num(0)}

CaseKeys ==
  {StrKey("Ok"), StrKey("Err"), StrKey("Some"), StrKey("None"),
   StrKey("default"), StrKey("a"), StrKey("b"), StrKey("1"),
   StrKey("constructor"), StrKey("unwrap"), SymKey("s")}

NoOutcome == [tag |-> "none"]

\* the subject was written down by the caller, not built by one of the
\* factory calls Ok(v), Err(e), Some(v), None()
NotMade == [ctor |-> "", arg |-> Undefined]

\* no call has been made on an object of the heap
NoLast == [on |-> 0, name |-> "", args |-> <<>>, result |-> 0]

\* ------------------------------------------------------------- the caller
Init ==
  /\ matcher \in Subjects
  /\ discriminant \in Discriminants
  /\ cases = Obj("Object", <<>>)
  /\ pc = "build"
  /\ ncalls = 0
  /\ outcome = NoOutcome
  /\ calls = <<>>
  /\ prevOutcome = NoOutcome
  /\ prevCalls = <<>>
  /\ okOrError = Undefined
  /\ converted = NoOutcome
  /\ made = NotMade
  /\ current = matcher
  /\ chain = <<>>
  /\ heap = <<>>
  /\ last = NoLast

\* the caller writes one more entry `k: handler` of the case-table literal
AddCase(k) ==
  /\ pc = "build"
  /\ Len(cases.own) < MaxCases
  /\ ~HasOwn(cases, k)
  /\ cases' = [cases EXCEPT !.own = Append(@, Prop(k, Handler(k)))]
  /\ UNCHANGED <<matcher, discriminant, pc, ncalls, outcome, calls,
                 prevOutcome, prevCalls, okOrError, converted>>
  /\ UNCHANGED <<made, current, chain, heap, last>>

\* the caller evaluates match(matcher, cases, discriminant)
CallMatch ==
  /\ ncalls < MaxCalls
  /\ LET r == match(matcher, cases, discriminant) IN
       /\ outcome' = r.completion
       /\ calls' = r.calls
  /\ prevOutcome' = outcome
  /\ prevCalls' = calls
  /\ ncalls' = ncalls + 1
  /\ pc' = "called"
  /\ UNCHANGED <<matcher, cases, discriminant, okOrError, converted>>
  /\ UNCHANGED <<made, current, chain, heap, last>>

Next == (\E k \in CaseKeys : AddCase(k)) \/ CallMatch

Spec == Init /\ [][Next]_vars

\* ------------------------------------------------------- claim vocabulary
IsPrimitive(v) == TypeOf(v) \in {"string", "number", "symbol"}
IsObject(v) == TypeOf(v) = "object" /\ v # Null
Called == ncalls > 0
FailedWith(msg) == outcome = Throw(msg)
\* the handler the caller put in the case table under key k
CaseHandler(k) == OwnValue(cases, k)
HasCase(k) == HasOwn(cases, k)
HasDefault == HasOwn(cases, StrKey("default"))
\* exactly the handler under k ran, once, with these arguments, and match
\* returned what it returned
Dispatched(k, args) ==
  /\ calls = <<[fn |-> CaseHandler(k), args |-> args]>>
  /\ outcome = Return(HandlerReturn(CaseHandler(k), args))
NothingInvoked == calls = <<>>

\* C1: one call to match either fails with an error, or invokes exactly one
\* handler of the case table exactly once and returns that handler's return
\* value unchanged; it never invokes more than one handler.
C1_OneHandlerOrError ==
  Called =>
    /\ Len(calls) <= 1
    /\ \/ outcome.tag = "throw"
       \/ /\ outcome.tag = "return"
          /\ Len(calls) = 1
          /\ \E i \in 1..Len(cases.own) : cases.own[i].val = calls[1].fn
          /\ outcome.value = HandlerReturn(calls[1].fn, calls[1].args)

\* C2: for a primitive subject, with or without a discriminant, the handler
\* stored under the subject's value runs with no arguments; failing that the
\* default runs with no arguments; failing that match fails with "No case
\* found for value: <subject>" and invokes nothing.
C2_PrimitiveDispatch ==
  (Called /\ IsPrimitive(matcher)) =>
    IF HasCase(ToPropertyKey(matcher)) THEN Dispatched(ToPropertyKey(matcher), <<>>)
    ELSE IF HasDefault THEN Dispatched(StrKey("default"), <<>>)
    ELSE FailedWith("No case found for value: " \o ToStr(matcher)) /\ NothingInvoked

\* C3: for a non-null object subject and a supplied discriminant key d, the
\* handler stored under the value subject[d] runs with the whole subject;
\* failing that the default runs with the whole subject; failing that match
\* fails with "No case found for discriminant value: <value>".
C3_DiscriminantDispatch ==
  (Called /\ IsObject(matcher) /\ discriminant # Undefined) =>
    LET value == Get(matcher, ToPropertyKey(discriminant)) IN
    IF HasCase(ToPropertyKey(value)) THEN Dispatched(ToPropertyKey(value), <<matcher>>)
    ELSE IF HasDefault THEN Dispatched(StrKey("default"), <<matcher>>)
    ELSE /\ FailedWith("No case found for discriminant value: " \o ToStr(value))
         /\ NothingInvoked

IsContainer(v) == IsObject(v) /\ v.cls \in {"Ok", "Err", "Some", "None"}
\* an object on which one of the capability predicates is present and true
IsRecognised(v) ==
  /\ IsObject(v)
  /\ \E p \in {"isOk", "isErr", "isSome", "isNone"} :
       HasProperty(v, StrKey(p)) /\ CallMethod(v, p, <<>>) = Return(Bool(TRUE))
\* an object that is not a Result or an Option, by class or by capability
IsPlainObject(v) == IsObject(v) /\ v.cls = "Object" /\ ~IsRecognised(v)
\* no key of the case table names a property of the subject
NoCaseNamesProperty ==
  \A i \in 1..Len(cases.own) : ~HasProperty(matcher, cases.own[i].key)

\* C4: for a non-null object subject with no discriminant, the case keys
\* are scanned in the case table's enumeration order; the handler of the
\* first key (other than `default`) that is a property of the subject runs,
\* with the value of that property, and no other handler runs.
C4_FirstCaseKeyWins ==
  (Called /\ IsObject(matcher) /\ discriminant = Undefined) =>
    LET keys == ForInKeys(cases)
        hits == {i \in 1..Len(keys) :
                   keys[i] # StrKey("default") /\ HasProperty(matcher, keys[i])}
    IN hits # {} =>
         LET first == CHOOSE i \in hits : \A j \in hits : i <= j IN
         Dispatched(keys[first], <<Get(matcher, keys[first])>>)

\* C4 witness: the subject lists b before a, the case table a before b, and
\* the handler of a ran with the value of the subject's a
C4_Witness ==
  /\ Called /\ matcher = MixedObject /\ discriminant = Undefined
  /\ Len(cases.own) >= 2
  /\ cases.own[1].key = StrKey("a") /\ cases.own[2].key = StrKey("b")
  /\ Dispatched(StrKey("a"), <<Str("pa")>>)

\* C5: with no discriminant, no default and no case key naming a property of
\* the subject, match(Ok(v)) returns cases.Ok(v), match(Err(e)) cases.Err(e),
\* match(Some(v)) cases.Some(v) and match(None()) cases.None(); no other
\* handler is invoked.
C5_ContainerDispatch ==
  (/\ Called /\ discriminant = Undefined /\ IsContainer(matcher)
   /\ ~HasDefault /\ NoCaseNamesProperty /\ HasCase(StrKey(matcher.cls))) =>
    Dispatched(StrKey(matcher.cls),
               IF matcher.cls = "None" THEN <<>> ELSE <<matcher.own[1].val>>)

\* C5 witness: match(Err(1), {Err, Ok}) ran the Err handler with 1
C5_Witness ==
  /\ Called /\ discriminant = Undefined /\ matcher = Err(Num(1))
  /\ HasCase(StrKey("Ok")) /\ HasCase(StrKey("Err"))
  /\ Dispatched(StrKey("Err"), <<Num(1)>>)

\* C6: with no discriminant, a subject recognised as Ok, Err, Some or None and
\* a case table with neither a handler for that variant, nor a default, nor a
\* key naming a property of the subject, match fails with "Missing case for
\* <variant>" and invokes no handler.
C6_MissingCase ==
  (/\ Called /\ discriminant = Undefined /\ IsContainer(matcher)
   /\ ~HasDefault /\ NoCaseNamesProperty /\ ~HasCase(StrKey(matcher.cls))) =>
    FailedWith("Missing case for " \o matcher.cls) /\ NothingInvoked

\* C6 witness: match(Ok("a"), {Err}) failed although the Err handler is there
C6_Witness ==
  /\ Called /\ discriminant = Undefined /\ matcher = Ok(Str("a"))
  /\ HasCase(StrKey("Err")) /\ ~HasCase(StrKey("Ok"))
  /\ FailedWith("Missing case for Ok") /\ NothingInvoked

\* C7: match fails with "Invalid matcher or missing case" and invokes no
\* handler (a) for an object that is no Result/Option (its capability
\* predicates, if any, are callable and false) with no discriminant, no case key among
\* its properties and no default, and (b) for null, undefined and booleans,
\* whatever the case table (default included) and the discriminant.
C7_InvalidMatch ==
  Called =>
    /\ (/\ IsPlainObject(matcher) /\ discriminant = Undefined
        /\ NoCaseNamesProperty /\ ~HasDefault) =>
         FailedWith("Invalid matcher or missing case") /\ NothingInvoked
    /\ (~IsPrimitive(matcher) /\ ~IsObject(matcher)) =>
         FailedWith("Invalid matcher or missing case") /\ NothingInvoked

\* C7 witness: a plain object fell through the mixed-union step of a
\* non-empty case table to the final throw
C7_Witness ==
  /\ Called /\ IsPlainObject(matcher) /\ discriminant = Undefined
  /\ Len(cases.own) >= 2 /\ ~HasDefault
  /\ FailedWith("Invalid matcher or missing case") /\ NothingInvoked

\* ------------------------------------------- the caller of the conversions
ConverterKeys == {StrKey("Ok"), StrKey("Err"), StrKey("Some"), StrKey("None")}

ErrorValues == Payloads \cup {Str("Some Error")}

InitConv ==
  /\ matcher \in Containers
  /\ discriminant = Undefined
  /\ cases = Obj("Object", <<>>)
  /\ pc = "build"
  /\ ncalls = 0
  /\ outcome = NoOutcome
  /\ calls = <<>>
  /\ prevOutcome = NoOutcome
  /\ prevCalls = <<>>
  /\ okOrError \in ErrorValues
  /\ converted = NoOutcome
  /\ made = NotMade
  /\ current = matcher
  /\ chain = <<>>
  /\ heap = <<>>
  /\ last = NoLast

\* the caller writes one entry of a conversion table:
\* Ok: v => Some(v), Err: _ => None(), Some: v => Ok(v), None: () => Err(e)
AddConverter(k) ==
  /\ pc = "build"
  /\ Len(cases.own) < MaxCases
  /\ ~HasOwn(cases, k)
  /\ cases' = [cases EXCEPT !.own = Append(@, Prop(k, Converter(k, okOrError)))]
  /\ UNCHANGED <<matcher, discriminant, pc, ncalls, outcome, calls,
                 prevOutcome, prevCalls, okOrError, converted>>
  /\ UNCHANGED <<made, current, chain, heap, last>>

\* the caller evaluates matcher.ok() on a Result, matcher.okOr(e) on an Option
Convert ==
  /\ converted = NoOutcome
  /\ converted' = IF matcher.cls \in {"Ok", "Err"}
                  THEN CallMethod(matcher, "ok", <<>>)
                  ELSE CallMethod(matcher, "okOr", <<okOrError>>)
  /\ UNCHANGED <<matcher, cases, discriminant, pc, ncalls, outcome, calls,
                 prevOutcome, prevCalls, okOrError>>
  /\ UNCHANGED <<made, current, chain, heap, last>>

NextConv == (\E k \in ConverterKeys : AddConverter(k)) \/ CallMatch \/ Convert

SpecConv == InitConv /\ [][NextConv]_vars

\* C8 (as claimed): a number subject, or a number discriminant value, n never
\* selects the handler stored under the string key that spells n.  (A case
\* table is an object: a key written as the number n is stored under the
\* string that spells n, so the claim's second half is the same statement.)
C8_NoCoercion ==
  Called =>
    /\ matcher.t = "number" =>
         \A i \in 1..Len(calls) :
           ~(/\ HasCase(StrKey(NumToString(matcher.n)))
             /\ calls[i].fn = CaseHandler(StrKey(NumToString(matcher.n))))
    /\ (IsObject(matcher) /\ Get(matcher, ToPropertyKey(discriminant)).t = "number") =>
         LET n == Get(matcher, ToPropertyKey(discriminant)).n IN
         \A i \in 1..Len(calls) :
           ~(/\ HasCase(StrKey(NumToString(n)))
             /\ calls[i].fn = CaseHandler(StrKey(NumToString(n))))

\* C8 (amended): a number is looked up under the string that spells it: a
\* number subject n selects the handler stored under the key spelling n, and
\* so does a number discriminant value n whenever the discriminant step
\* performs the lookup.
C8_NumberSelectsSpelledKey ==
  Called =>
    /\ (matcher.t = "number" /\ HasCase(StrKey(NumToString(matcher.n)))) =>
         Dispatched(StrKey(NumToString(matcher.n)), <<>>)
    /\ (/\ IsObject(matcher) /\ Truthy(discriminant)
        /\ Get(matcher, ToPropertyKey(discriminant)).t = "number"
        /\ HasCase(StrKey(NumToString(Get(matcher, ToPropertyKey(discriminant)).n)))) =>
         Dispatched(StrKey(NumToString(Get(matcher, ToPropertyKey(discriminant)).n)),
                    <<matcher>>)

\* C8 witness: match(1, {"1": h}) ran h
C8_Witness ==
  /\ Called /\ matcher = Num(1) /\ HasCase(StrKey("1"))
  /\ Dispatched(StrKey("1"), <<>>)

C10_ConversionAgrees ==
  (/\ Called /\ converted # NoOutcome
   /\ \/ matcher.cls \in {"Ok", "Err"} /\ HasCase(StrKey("Ok")) /\ HasCase(StrKey("Err"))
      \/ matcher.cls \in {"Some", "None"} /\ HasCase(StrKey("Some")) /\ HasCase(StrKey("None")))
    => /\ outcome.tag = "return" /\ converted.tag = "return"
       /\ outcome.value.cls = converted.value.cls
       /\ outcome.value.own = converted.value.own

\* C10 witness: match(None(), {Some: .., None: () => Err(e)}) and
\* None().okOr(e) both gave Err(e)
C10_Witness ==
  /\ Called /\ matcher = None
  /\ HasCase(StrKey("Some")) /\ HasCase(StrKey("None"))
  /\ outcome = Return(Err(okOrError)) /\ converted = outcome

\* ------------------------------------------ the caller of a method chain
\* an error of a class of the caller's own: new ValidationError("email", ...)
CustomError ==
  Obj("ValidationError", <<Prop(StrKey("field"), Str("email")),
                           Prop(StrKey("message"), Str("Invalid format"))>>)

ChainPayloads == Payloads \cup {CustomError}

\* the factory calls Ok(v), Err(e), Some(v), None()
Made ==
  {[ctor |-> c, arg |-> a] : c \in {"Ok", "Err", "Some"}, a \in ChainPayloads}
    \cup {[ctor |-> "None", arg |-> Undefined]}

\* the argument lists the caller passes to the method called name
ArgsOf(cls, name) ==
  CASE name = "map" -> {<<Handler(StrKey("f"))>>}
    [] name = "mapErr" -> {<<Handler(StrKey("g"))>>}
    [] name \in {"flatMap", "orElse"} /\ cls \in {"Ok", "Err"} ->
         {<<Lifted("Ok", StrKey("f"))>>, <<Lifted("Err", StrKey("f"))>>}
    [] name = "flatMap" ->
         {<<Lifted("Some", StrKey("f"))>>, <<Lifted("None", StrKey("f"))>>}
    [] name = "unwrapOr" -> {<<Str("d")>>}
    [] name = "unwrapOrElse" -> {<<Handler(StrKey("fn"))>>}
    [] name = "okOr" -> {<<e>> : e \in ErrorValues}
    [] name = "filter" -> {<<GreaterThan(0)>>, <<GreaterThan(1)>>}
    [] OTHER -> {<<>>}

InitChain ==
  /\ made \in Made
  /\ matcher = Construct(made.ctor, made.arg)
  /\ current = matcher
  /\ chain = <<>>
  /\ heap = <<>>
  /\ last = NoLast
  /\ discriminant = Undefined
  /\ cases = Obj("Object", <<>>)
  /\ pc = "chain"
  /\ ncalls = 0
  /\ outcome = NoOutcome
  /\ calls = <<>>
  /\ prevOutcome = NoOutcome
  /\ prevCalls = <<>>
  /\ okOrError = Undefined
  /\ converted = NoOutcome

\* the caller appends .name(...args) to the expression: the method runs on
\* the container the expression has produced so far; a result that is no
\* container ends the chain
Apply(name, args) ==
  /\ pc = "chain"
  /\ Len(chain) < MaxChain
  /\ LET r == RunMethod(current, name, args)
         more == r.completion.tag = "return" /\ IsContainer(r.completion.value)
     IN /\ outcome' = r.completion
        /\ calls' = r.calls
        /\ current' = IF more THEN r.completion.value ELSE current
        /\ pc' = IF more THEN "chain" ELSE "done"
  /\ prevOutcome' = outcome
  /\ prevCalls' = calls
  /\ chain' = Append(chain, [recv |-> current, name |-> name, args |-> args])
  /\ UNCHANGED <<matcher, cases, discriminant, ncalls, okOrError, converted, made>>
  /\ UNCHANGED <<heap, last>>

NextChain ==
  \E name \in ClassMembers(current.cls) \ {"constructor"} :
    \E args \in ArgsOf(current.cls, name) : Apply(name, args)

SpecChain == InitChain /\ [][NextChain]_vars

\* ------------------------------------- claim vocabulary of method chains
Applied == chain # <<>>
\* the last method call of the chain: its receiver, name and arguments
LastOp == chain[Len(chain)]
Recv == LastOp.recv
Did(cls, name) == Applied /\ Recv.cls = cls /\ LastOp.name = name
\* what a container holds: the value of Ok and Some, the error of Err
Held(o) ==
  IF o.cls = "Err" THEN OwnValue(o, StrKey("error")) ELSE OwnValue(o, StrKey("_value"))
Returned(v) == outcome = Return(v)
\* the function fn was invoked exactly once, with these arguments
InvokedOnce(fn, args) == calls = <<[fn |-> fn, args |-> args]>>

C12_ResultAccessors ==
  /\ Did("Ok", "unwrap") => Returned(Held(Recv))
  /\ Did("Ok", "unwrapErr") =>
       /\ outcome.tag = "throw"
       /\ outcome.value.message = "Called unwrapErr on an Ok value"
  /\ Did("Err", "unwrapErr") => Returned(Held(Recv))
  /\ Did("Err", "unwrap") =>
       /\ outcome.tag = "throw"
       /\ outcome.value.message = "Called unwrap on an Err value"
  /\ (Did("Ok", "value") \/ Did("Err", "value")) => Returned(Held(Recv))

\* C12 witness: Err("a").unwrap() failed with the message of the claim
C12_Witness ==
  /\ Did("Err", "unwrap") /\ Recv = Err(Str("a"))
  /\ outcome.tag = "throw"
  /\ outcome.value.message = "Called unwrap on an Err value"

\* C13: on None, isNone() is true and isSome() is false; unwrap() fails with
\* the message "Called unwrap on a None value"; value() never fails and
\* returns undefined.
C13_NoneAccessors ==
  /\ Did("None", "isNone") => Returned(Bool(TRUE))
  /\ Did("None", "isSome") => Returned(Bool(FALSE))
  /\ Did("None", "unwrap") =>
       /\ outcome.tag = "throw"
       /\ outcome.value.message = "Called unwrap on a None value"
  /\ Did("None", "value") => Returned(Undefined)

\* C13 witness: None().value() returned undefined
C13_Witness ==
  /\ made.ctor = "None" /\ Len(chain) = 1
  /\ Did("None", "value") /\ Returned(Undefined)

\* the two variant predicates of the class of container o
VariantPredicates(o) ==
  IF o.cls \in {"Ok", "Err"} THEN <<"isOk", "isErr">> ELSE <<"isSome", "isNone">>

\* C14: Some(v).isSome() is true, Some(v).isNone() is false, and unwrap() and
\* value() both return v; on every Option exactly one of isSome / isNone is
\* true, and on every Result exactly one of isOk / isErr.
C14_SomeAccessorsAndVariants ==
  /\ Did("Some", "isSome") => Returned(Bool(TRUE))
  /\ Did("Some", "isNone") => Returned(Bool(FALSE))
  /\ (Did("Some", "unwrap") \/ Did("Some", "value")) => Returned(Held(Recv))
  /\ IsContainer(current) =>
       LET p == VariantPredicates(current) IN
       {CallMethod(current, p[1], <<>>), CallMethod(current, p[2], <<>>)}
         = {Return(Bool(TRUE)), Return(Bool(FALSE))}

\* C14 witness: Some("a").value() returned "a"
C14_Witness ==
  /\ Did("Some", "value") /\ Recv = Some(Str("a")) /\ Returned(Str("a"))

\* the last call returned a container of class cls holding v
Holds(cls, v) ==
  /\ outcome.tag = "return" /\ IsContainer(outcome.value)
  /\ outcome.value.cls = cls /\ Held(outcome.value) = v
ReturnedNone ==
  /\ outcome.tag = "return" /\ IsContainer(outcome.value)
  /\ outcome.value.cls = "None"
\* the call before the last, and the one before that
Op2 == chain[Len(chain) - 1]
Op3 == chain[Len(chain) - 2]

\* C15: Some(v).okOr(e) is an Ok holding v, and Some(v).okOr(e).ok().unwrap()
\* is v; None().okOr(e) is an Err whose unwrapErr() is e, and
\* None().okOr(e).ok() is None.
C15_OkOrRoundTrip ==
  /\ Did("Some", "okOr") => Holds("Ok", Held(Recv))
  /\ Did("None", "okOr") => Holds("Err", LastOp.args[1])
  /\ (Len(chain) >= 2 /\ Op2.name = "okOr" /\ Op2.recv.cls = "None") =>
       /\ LastOp.name = "unwrapErr" => Returned(Op2.args[1])
       /\ LastOp.name = "ok" => ReturnedNone
  /\ (/\ Len(chain) >= 3 /\ Op3.name = "okOr" /\ Op3.recv.cls = "Some"
      /\ Op2.name = "ok" /\ LastOp.name = "unwrap") =>
       Returned(Held(Op3.recv))

\* C15 witness: Some("a").okOr(e).ok().unwrap() returned "a"
C15_Witness ==
  /\ Len(chain) = 3 /\ chain[1].recv = Some(Str("a"))
  /\ chain[1].name = "okOr" /\ chain[2].name = "ok" /\ chain[3].name = "unwrap"
  /\ chain[1].args # <<Str("a")>>
  /\ Returned(Str("a"))

\* the function argument of the last call, and what the receiver held
LastFn == LastOp.args[1]
LastHeld == Held(Recv)

\* C16: Ok(v).flatMap(f) returns exactly what f(v) returns, invoking f once;
\* Err(e).flatMap(f) returns the original Err holding e and never invokes f.
C16_ResultFlatMap ==
  /\ Did("Ok", "flatMap") =>
       /\ outcome = Call(LastFn, <<LastHeld>>)
       /\ InvokedOnce(LastFn, <<LastHeld>>)
  /\ Did("Err", "flatMap") =>
       /\ Returned(Recv) /\ Holds("Err", LastHeld)
       /\ NothingInvoked

\* C16 witness: Ok(1).flatMap(v => Err(f(v))) returned the Err that f built,
\* from one invocation of f
C16_Witness ==
  /\ Did("Ok", "flatMap") /\ Recv = Ok(Num(1))
  /\ LastFn = Lifted("Err", StrKey("f"))
  /\ Holds("Err", HandlerReturn(LastFn, <<Num(1)>>))
  /\ Len(calls) = 1

\* C17: Ok(v).map(f) is an Ok holding f(v); Err(e).map(f) is an Err holding e
\* and f is never invoked; Err(e).mapErr(g) is an Err holding g(e);
\* Ok(v).mapErr(g) is an Ok holding v and g is never invoked.
C17_MapAndMapErr ==
  /\ Did("Ok", "map") =>
       /\ Holds("Ok", HandlerReturn(LastFn, <<LastHeld>>))
       /\ InvokedOnce(LastFn, <<LastHeld>>)
  /\ Did("Err", "map") => (Holds("Err", LastHeld) /\ NothingInvoked)
  /\ Did("Err", "mapErr") =>
       /\ Holds("Err", HandlerReturn(LastFn, <<LastHeld>>))
       /\ InvokedOnce(LastFn, <<LastHeld>>)
  /\ Did("Ok", "mapErr") => (Holds("Ok", LastHeld) /\ NothingInvoked)

\* C17 witness: Err("a").map(f) is the Err holding "a", f not invoked
C17_Witness ==
  /\ Did("Err", "map") /\ Recv = Err(Str("a"))
  /\ Holds("Err", Str("a")) /\ NothingInvoked

\* C18: Some(v).map(f) is a Some holding f(v); Some(v).flatMap(f) returns
\* exactly what f(v) returns; None().map(f) and None().flatMap(f) are None
\* and never invoke f.
C18_OptionMapAndFlatMap ==
  /\ Did("Some", "map") =>
       /\ Holds("Some", HandlerReturn(LastFn, <<LastHeld>>))
       /\ InvokedOnce(LastFn, <<LastHeld>>)
  /\ Did("Some", "flatMap") =>
       /\ outcome = Call(LastFn, <<LastHeld>>)
       /\ InvokedOnce(LastFn, <<LastHeld>>)
  /\ (Did("None", "map") \/ Did("None", "flatMap")) =>
       (ReturnedNone /\ NothingInvoked)

\* C18 witness: Some(1).map(f) is the Some holding f(1)
C18_Witness ==
  /\ Did("Some", "map") /\ Recv = Some(Num(1))
  /\ Holds("Some", HandlerReturn(Handler(StrKey("f")), <<Num(1)>>))

\* what the predicate (x) => x > n answers for v
Above(p, v) == v.t = "number" /\ v.n > p.n

\* C19: Some(v).filter(p) is a Some holding v when p(v) is true and None when
\* it is false; None().filter(p) is None and never invokes p.
C19_Filter ==
  /\ Did("Some", "filter") =>
       /\ Above(LastFn, LastHeld) => Holds("Some", LastHeld)
       /\ ~Above(LastFn, LastHeld) => ReturnedNone
  /\ Did("None", "filter") => (ReturnedNone /\ NothingInvoked)

\* C19 witness: Some(1).filter(x => x > 1) is None
C19_Witness ==
  /\ Did("Some", "filter") /\ Recv = Some(Num(1)) /\ LastFn = GreaterThan(1)
  /\ ReturnedNone

\* C20: Some(v) and Ok(v) return v from unwrapOr(d) and from
\* unwrapOrElse(fn), without invoking fn; None().unwrapOr(d) and
\* Err(e).unwrapOr(d) return d; None().unwrapOrElse(fn) returns fn() and
\* Err(e).unwrapOrElse(fn) returns fn(e), each invoking fn exactly once.
C20_UnwrapOrDefaults ==
  /\ (Did("Some", "unwrapOr") \/ Did("Ok", "unwrapOr")) => Returned(LastHeld)
  /\ (Did("Some", "unwrapOrElse") \/ Did("Ok", "unwrapOrElse")) =>
       (Returned(LastHeld) /\ NothingInvoked)
  /\ (Did("None", "unwrapOr") \/ Did("Err", "unwrapOr")) =>
       (Returned(LastOp.args[1]) /\ NothingInvoked)
  /\ Did("None", "unwrapOrElse") =>
       /\ Returned(HandlerReturn(LastFn, <<>>))
       /\ InvokedOnce(LastFn, <<>>)
  /\ Did("Err", "unwrapOrElse") =>
       /\ Returned(HandlerReturn(LastFn, <<LastHeld>>))
       /\ InvokedOnce(LastFn, <<LastHeld>>)

\* C20 witness: Err("a").unwrapOrElse(fn) returned fn("a") from one
\* invocation of fn
C20_Witness ==
  /\ Did("Err", "unwrapOrElse") /\ Recv = Err(Str("a"))
  /\ Returned(HandlerReturn(Handler(StrKey("fn")), <<Str("a")>>))
  /\ InvokedOnce(Handler(StrKey("fn")), <<Str("a")>>)

AllNamed(S) == \A i \in 1..Len(chain) : chain[i].name \in S

\* C28: any sequence of map and flatMap calls applied to Err(e) yields an Err
\* whose error is e, and any sequence of map, flatMap and filter calls
\* applied to None() yields a None; none of the functions passed along the
\* chain is invoked (the statement holds after every call of the chain).
C28_ShortCircuit ==
  Applied =>
    /\ (chain[1].recv.cls = "Err" /\ AllNamed({"map", "flatMap"})) =>
         (Holds("Err", Held(chain[1].recv)) /\ NothingInvoked)
    /\ (chain[1].recv.cls = "None" /\ AllNamed({"map", "flatMap", "filter"})) =>
         (ReturnedNone /\ NothingInvoked)

\* C28 witness: Err("a").map(f).flatMap(f').map(f) is an Err holding "a"
C28_Witness ==
  /\ Len(chain) = 3 /\ chain[1].recv = Err(Str("a"))
  /\ chain[1].name = "map" /\ chain[2].name = "flatMap" /\ chain[3].name = "map"
  /\ Holds("Err", Str("a")) /\ NothingInvoked

\* C23: with no discriminant, a Result or Option subject and a case table
\* that contains `default` and no key naming a property of the subject, match
\* invokes `default` with no arguments and no other handler, even when the
\* handler of the subject's variant is in the table.
C23_DefaultBeforeVariant ==
  (/\ Called /\ discriminant = Undefined /\ IsContainer(matcher)
   /\ HasDefault /\ NoCaseNamesProperty) =>
    Dispatched(StrKey("default"), <<>>)

\* C23 witness: match(Ok("a"), {Ok, default}) ran default, not the Ok handler
C23_Witness ==
  /\ Called /\ discriminant = Undefined /\ matcher = Ok(Str("a"))
  /\ HasCase(StrKey("Ok")) /\ HasDefault
  /\ Dispatched(StrKey("default"), <<>>)

\* C24 (as claimed): in the key scan of an object subject with no
\* discriminant, a case key that names only an inherited member of the
\* subject does not select its handler: that handler is not invoked.
C24_OwnPropertyOnly ==
  (Called /\ IsObject(matcher) /\ discriminant = Undefined) =>
    \A i \in 1..Len(cases.own) :
      (~HasOwn(matcher, cases.own[i].key) /\ Inherits(matcher, cases.own[i].key)) =>
        \A j \in 1..Len(calls) : calls[j].fn # cases.own[i].val

\* the variants in the order their capability predicates are tested
VariantOrder == <<"Ok", "Err", "Some", "None">>
\* the positions in that order whose predicate is present on v and true
TrueVariants(v) ==
  {i \in 1..Len(VariantOrder) :
     /\ HasProperty(v, StrKey("is" \o VariantOrder[i]))
     /\ CallMethod(v, "is" \o VariantOrder[i], <<>>) = Return(Bool(TRUE))}

\* C25: when match reaches the capability tests (no discriminant, no default,
\* no case key naming a property of the subject), the earliest variant in the
\* order isOk, isErr, isSome, isNone whose predicate is present and true
\* decides: its handler alone is invoked, and if it is missing match fails
\* with "Missing case for <variant>" even when the handler of a later true
\* variant is in the table.
C25_SniffOrder ==
  (/\ Called /\ discriminant = Undefined /\ IsObject(matcher)
   /\ ~HasDefault /\ NoCaseNamesProperty /\ TrueVariants(matcher) # {}) =>
    LET first == CHOOSE i \in TrueVariants(matcher) :
                   \A j \in TrueVariants(matcher) : i <= j
        variant == VariantOrder[first]
    IN IF HasCase(StrKey(variant))
       THEN /\ Len(calls) = 1
            /\ calls[1].fn = CaseHandler(StrKey(variant))
            /\ outcome = Return(HandlerReturn(calls[1].fn, calls[1].args))
       ELSE FailedWith("Missing case for " \o variant) /\ NothingInvoked

\* C25 witness: on a subject whose isOk and isErr are both true, the Err
\* handler is in the table and match failed for want of the Ok handler
C25_Witness ==
  /\ Called /\ discriminant = Undefined /\ matcher = DuckResult
  /\ Cardinality(TrueVariants(matcher)) = 2
  /\ HasCase(StrKey("Err")) /\ ~HasCase(StrKey("Ok"))
  /\ FailedWith("Missing case for Ok") /\ NothingInvoked

\* the case table has no entry under k but inherits a member named k
InheritedOnly(k) == ~HasCase(k) /\ Inherits(cases, k)

\* C29 (as claimed): lookup by primitive subject or by discriminant value
\* considers the caller's entries only: match never invokes a function that
\* is not one of the caller's handlers, and when the looked-up name is one the
\* table merely inherits, `default` runs if present and otherwise match fails
\* with "No case found ...".  (The discriminant half is stated for the
\* discriminants on which the lookup is performed.)
C29_OwnEntriesOnly ==
  Called =>
    /\ \A j \in 1..Len(calls) :
         \E i \in 1..Len(cases.own) : cases.own[i].val = calls[j].fn
    /\ (IsPrimitive(matcher) /\ InheritedOnly(ToPropertyKey(matcher))) =>
         IF HasDefault THEN Dispatched(StrKey("default"), <<>>)
         ELSE /\ FailedWith("No case found for value: " \o ToStr(matcher))
              /\ NothingInvoked
    /\ (/\ IsObject(matcher) /\ Truthy(discriminant)
        /\ InheritedOnly(ToPropertyKey(Get(matcher, ToPropertyKey(discriminant))))) =>
         LET value == Get(matcher, ToPropertyKey(discriminant)) IN
         IF HasDefault THEN Dispatched(StrKey("default"), <<matcher>>)
         ELSE /\ FailedWith("No case found for discriminant value: " \o ToStr(value))
              /\ NothingInvoked

\* C30 (as claimed): for a non-null object subject and every property key
\* passed as discriminant, the number 0 and the empty string included, the
\* handler stored under subject[discriminant] runs with the whole subject,
\* and a miss without `default` fails with "No case found for discriminant
\* value: <value>".  (Values naming a member the table merely inherits are
\* left to C29.)
C30_EveryDiscriminantKey ==
  (Called /\ IsObject(matcher) /\ discriminant # Undefined) =>
    LET value == Get(matcher, ToPropertyKey(discriminant)) IN
    /\ HasCase(ToPropertyKey(value)) =>
         Dispatched(ToPropertyKey(value), <<matcher>>)
    /\ (/\ ~HasCase(ToPropertyKey(value)) /\ ~Inherits(cases, ToPropertyKey(value))
        /\ ~HasDefault) =>
         /\ FailedWith("No case found for discriminant value: " \o ToStr(value))
         /\ NothingInvoked

\* --------------------------------- the caller whose handlers may fail
\* one subject for each step of match that invokes a handler
FailSubjects ==
  {Str("a"), MixedObject,
   Obj("Object", <<Prop(StrKey("type"), Str("a")), Prop(StrKey("a"), Str("pa"))>>),
   Ok(Str("a")), None}

FailingKeys == {StrKey("Ok"), StrKey("None"), StrKey("a"), StrKey("default")}

InitFail ==
  /\ matcher \in FailSubjects
  /\ discriminant \in {Undefined, Str("type")}
  /\ cases = Obj("Object", <<>>)
  /\ pc = "build"
  /\ ncalls = 0
  /\ outcome = NoOutcome
  /\ calls = <<>>
  /\ prevOutcome = NoOutcome
  /\ prevCalls = <<>>
  /\ okOrError = Undefined
  /\ converted = NoOutcome
  /\ made = NotMade
  /\ current = matcher
  /\ chain = <<>>
  /\ heap = <<>>
  /\ last = NoLast

\* the caller writes one more entry `k: handler` whose handler throws
AddFailingCase(k) ==
  /\ pc = "build"
  /\ Len(cases.own) < MaxCases
  /\ ~HasOwn(cases, k)
  /\ cases' = [cases EXCEPT !.own = Append(@, Prop(k, FailingHandler(k)))]
  /\ UNCHANGED <<matcher, discriminant, pc, ncalls, outcome, calls,
                 prevOutcome, prevCalls, okOrError, converted>>
  /\ UNCHANGED <<made, current, chain, heap, last>>

NextFail ==
  \/ \E k \in CaseKeys : AddCase(k)
  \/ \E k \in FailingKeys : AddFailingCase(k)
  \/ CallMatch

SpecFail == InitFail /\ [][NextFail]_vars

\* C26: if the handler match selects fails, match fails with that same
\* failure; the failure is not caught and no other handler (in particular
\* not `default`) is invoked after it.
C26_HandlerFailurePropagates ==
  Called =>
    \A i \in 1..Len(calls) :
      calls[i].fn.f = "failing" =>
        /\ Len(calls) = 1
        /\ outcome = Throw("Error: " \o calls[i].fn.of.name)

\* C26 witness: match("a", {a: failing, default}) failed with the failure of
\* the handler of a, the default not invoked
C26_Witness ==
  /\ Called /\ matcher = Str("a") /\ HasDefault
  /\ calls = <<[fn |-> FailingHandler(StrKey("a")), args |-> <<>>]>>
  /\ outcome = Throw("Error: a")

\* ------------------------------------------- containers as heap objects
\* The heap is the sequence of the container objects allocated so far; an
\* object is identified by its position, and `new` appends one.  The caller
\* keeps a reference to every object.

\* whether o.name(...args) returns `this` rather than a new object:
\* Ok.mapErr, Ok.orElse, Err.map, Err.flatMap, and Some.filter when the
\* predicate holds
ReturnsThis(o, name, args) ==
  CASE o.cls = "Ok" -> name \in {"mapErr", "orElse"}
    [] o.cls = "Err" -> name \in {"map", "flatMap"}
    [] o.cls = "Some" ->
         name = "filter" /\ RunMethod(o, name, args).completion = Return(o)
    [] OTHER -> FALSE

\* mutant: mapErr on an Err replaces the error of the receiver
ReceiverAfterMapErrInPlace(o, name, args) ==
  IF o.cls = "Err" /\ name = "mapErr"
  THEN Err(HandlerReturn(args[1], <<OwnValue(o, StrKey("error"))>>))
  ELSE o

\* the receiver after o.name(...args), and the subject after match(o, ...):
\* the fields are written by the constructors only, no method body and no
\* statement of match assigns to them
ReceiverAfter(o, name, args) == o

HeapPayloads == {Num(1)}

\* a case table with a handler for every variant
VariantCases ==
  Obj("Object", <<Prop(StrKey("Ok"), Handler(StrKey("Ok"))),
                  Prop(StrKey("Err"), Handler(StrKey("Err"))),
                  Prop(StrKey("Some"), Handler(StrKey("Some"))),
                  Prop(StrKey("None"), Handler(StrKey("None")))>>)

InitHeap ==
  /\ heap = <<>>
  /\ last = NoLast
  /\ matcher = Undefined
  /\ discriminant = Undefined
  /\ cases = VariantCases
  /\ pc = "heap"
  /\ ncalls = 0
  /\ outcome = NoOutcome
  /\ calls = <<>>
  /\ prevOutcome = NoOutcome
  /\ prevCalls = <<>>
  /\ okOrError = Undefined
  /\ converted = NoOutcome
  /\ made = NotMade
  /\ current = Undefined
  /\ chain = <<>>

\* the caller evaluates one of the factory calls Ok(v), Err(e), Some(v), None()
NewContainer(ctor, arg) ==
  /\ Len(heap) < MaxHeap
  /\ heap' = Append(heap, Construct(ctor, arg))
  /\ last' = [on |-> 0, name |-> ctor, args |-> <<arg>>, result |-> Len(heap) + 1]
  /\ outcome' = Return(Construct(ctor, arg))
  /\ calls' = <<>>
  /\ UNCHANGED <<matcher, cases, discriminant, pc, ncalls, prevOutcome,
                 prevCalls, okOrError, converted, made, current, chain>>

\* the caller evaluates heap[a].name(...args); a container the method builds
\* is a new object of the heap
HeapCall(a, name, args) ==
  /\ a \in 1..Len(heap)
  /\ name \in ClassMembers(heap[a].cls) \ {"constructor"}
  /\ args \in ArgsOf(heap[a].cls, name)
  /\ LET r == RunMethod(heap[a], name, args)
         gives == r.completion.tag = "return" /\ IsContainer(r.completion.value)
         fresh == gives /\ ~ReturnsThis(heap[a], name, args)
         after == [heap EXCEPT ![a] = ReceiverAfter(heap[a], name, args)]
     IN /\ fresh => Len(heap) < MaxHeap
        /\ heap' = IF fresh THEN Append(after, r.completion.value) ELSE after
        /\ last' = [on |-> a, name |-> name, args |-> args,
                    result |-> IF fresh THEN Len(heap) + 1
                               ELSE IF gives THEN a ELSE 0]
        /\ outcome' = r.completion
        /\ calls' = r.calls
  /\ UNCHANGED <<matcher, cases, discriminant, pc, ncalls, prevOutcome,
                 prevCalls, okOrError, converted, made, current, chain>>

\* the caller evaluates match(heap[a], {Ok, Err, Some, None})
PassToMatch(a) ==
  /\ a \in 1..Len(heap)
  /\ LET r == match(heap[a], cases, discriminant) IN
       /\ outcome' = r.completion
       /\ calls' = r.calls
  /\ heap' = [heap EXCEPT ![a] = ReceiverAfter(heap[a], "match", <<>>)]
  /\ last' = [on |-> a, name |-> "match", args |-> <<>>, result |-> 0]
  /\ UNCHANGED <<matcher, cases, discriminant, pc, ncalls, prevOutcome,
                 prevCalls, okOrError, converted, made, current, chain>>

NextHeap ==
  \/ \E ctor \in {"Ok", "Err", "Some"} : \E arg \in HeapPayloads :
       NewContainer(ctor, arg)
  \/ NewContainer("None", Undefined)
  \/ \E a \in 1..MaxHeap :
       \E name \in ResultMembers \cup OptionMembers :
         \E args \in ArgsOf(IF a <= Len(heap) THEN heap[a].cls ELSE "", name) :
           HeapCall(a, name, args)
  \/ \E a \in 1..MaxHeap : PassToMatch(a)

SpecHeap == InitHeap /\ [][NextHeap]_vars

\* C22 (as claimed): None() is a singleton: every None obtained from a call
\* to None() or returned by map, flatMap or filter is the same instance, so
\* at no time do two distinct objects of the heap both hold a None.
C22_NoneSingleton ==
  \A a, b \in 1..Len(heap) :
    (heap[a].cls = "None" /\ heap[b].cls = "None") => a = b

====
